---- MODULE Spec2Model ----
(***************************************************************************)
(* Model of the TLS record layer of rust-tls-core:                         *)
(*   src/src/constants.rs     the ContentType / ProtocolVersion codecs      *)
(*   src/src/record_layer.rs  Record, TLSPlaintext, TLSCiphertext and the   *)
(*                            TLSPlaintextParser state machine              *)
(*   src/src/fsm.rs           the FiniteStateMachine trait                  *)
(* Bytes are naturals in 0..255, u16 values naturals in 0..65535, slices   *)
(* and Vec<u8> are sequences of bytes.                                      *)
(***************************************************************************)
EXTENDS Naturals, Sequences, FiniteSets

VARIABLES
    record,   \* the Record value the caller serializes, or NoRecord
    buffer,   \* the bytes the parser is started on
    parser,   \* the TLSPlaintextParser value
    calls,    \* number of calls of transition made on the parser
    phase,    \* position of the caller
    conv,     \* one call of a conversion of constants.rs: its input and results
    peers     \* the parser instances of a caller that drives several at once

vars == <<record, buffer, parser, calls, phase, conv, peers>>

----------------------------------------------------------------------------
(* Bounds of the model *)

\* longest buffer handed to the parser as raw (untrusted) input
MaxBufLen == 6
\* longest enumerated payload of a record handed to the serializer
MaxFragLen == 2
\* transition is called at most this many times on one parser
MaxCalls == 6

Byte == 0..255
U16 == 0..65535

\* the byte values raw buffers are made of: two mapped type tags (0x00, 0x16),
\* the version bytes 0x03 / 0x01, and length bytes spanning the 0x4000 limit
ByteSample == {0, 1, 3, 22, 64}
\* the byte values enumerated payloads are made of
FragBytes == {0, 255}
\* lengths of the all-zero payloads that exercise the high length byte and
\* the plaintext maximum
LongLens == {258, 16384, 16385}
\* declared lengths a caller may write besides the payload's own length
LengthSample == {0, 1, 2, 255, 256, 16384, 16385, 65535}

SeqsUpTo(S, n) == UNION {[1..k -> S] : k \in 0..n}
Zeros(n) == [i \in 1..n |-> 0]

----------------------------------------------------------------------------
(* Rust values *)

\* Result<T, E>, and the outcome of a call that may panic (failed unwrap,
\* unreachable!()) instead of returning
Ok(v) == [kind |-> "Ok", val |-> v]
Err(e) == [kind |-> "Err", err |-> e]
Returned(v) == [kind |-> "Returned", val |-> v]
Panic == [kind |-> "Panic"]
\* Option<T>
Some(v) == [some |-> TRUE, val |-> v]
None == [some |-> FALSE]

\* <[u8]>::get(i), get(a..b), get(a..)
slice_get(s, i) == IF i < Len(s) THEN Some(s[i + 1]) ELSE None
slice_get_range(s, a, b) ==
    IF a <= b /\ b <= Len(s) THEN Some(SubSeq(s, a + 1, b)) ELSE None
slice_get_from(s, a) ==
    IF a <= Len(s) THEN Some(SubSeq(s, a + 1, Len(s))) ELSE None

\* u16::to_be_bytes (and the little-endian order, a slip)
to_le_bytes(n) == <<n % 256, n \div 256>>
to_be_bytes(n) == <<n \div 256, n % 256>>

\* u16::from_be_bytes (and the little-endian order, a slip)
from_le_bytes(b) == b[1] + 256 * b[2]
from_be_bytes(b) == 256 * b[1] + b[2]

----------------------------------------------------------------------------
(* constants.rs *)

ContentType == {"Invalid", "ChangeCipherSpec", "Alert", "Handshake", "ApplicationData"}
ProtocolVersion == {"TLSv1_0", "TLSv1_1", "TLSv1_2", "TLSv1_3"}

\* impl TryFrom<ContentType> for u8
u8_try_from_ContentType(value) ==
    CASE value = "Invalid" -> Ok(0)
      [] value = "ChangeCipherSpec" -> Ok(20)
      [] value = "Alert" -> Ok(21)
      [] value = "Handshake" -> Ok(22)
      [] value = "ApplicationData" -> Ok(23)

\* the same with a wildcard arm that accepts every byte
ContentType_try_from_u8_default(value) ==
    CASE value = 20 -> Ok("ChangeCipherSpec")
      [] value = 21 -> Ok("Alert")
      [] value = 22 -> Ok("Handshake")
      [] value = 23 -> Ok("ApplicationData")
      [] OTHER -> Ok("Invalid")

\* impl TryFrom<u8> for ContentType
ContentType_try_from_u8(value) ==
    CASE value = 0 -> Ok("Invalid")
      [] value = 20 -> Ok("ChangeCipherSpec")
      [] value = 21 -> Ok("Alert")
      [] value = 22 -> Ok("Handshake")
      [] value = 23 -> Ok("ApplicationData")
      [] OTHER -> Err("Invalid encoding")

\* impl TryFrom<ProtocolVersion> for [u8; 2]
bytes_try_from_ProtocolVersion(value) ==
    CASE value = "TLSv1_0" -> Ok(<<3, 1>>)
      [] value = "TLSv1_1" -> Ok(<<3, 2>>)
      [] value = "TLSv1_2" -> Ok(<<3, 3>>)
      [] value = "TLSv1_3" -> Ok(<<3, 4>>)

\* the decoding that matches the whole slice, not its leading 2 bytes
ProtocolVersion_try_from_whole_slice(value) ==
    IF Len(value) < 2 THEN Err("Invalid length")
    ELSE CASE value = <<3, 1>> -> Ok("TLSv1_0")
           [] value = <<3, 2>> -> Ok("TLSv1_1")
           [] value = <<3, 3>> -> Ok("TLSv1_2")
           [] value = <<3, 4>> -> Ok("TLSv1_3")
           [] OTHER -> Err("Invalid encoding")

\* impl TryFrom<&[u8]> for ProtocolVersion
ProtocolVersion_try_from_slice(value) ==
    IF Len(value) < 2 THEN Err("Invalid length")
    ELSE LET head == slice_get_range(value, 0, 2) IN
         IF ~head.some THEN Panic
         ELSE CASE head.val = <<3, 1>> -> Ok("TLSv1_0")
                [] head.val = <<3, 2>> -> Ok("TLSv1_1")
                [] head.val = <<3, 3>> -> Ok("TLSv1_2")
                [] head.val = <<3, 4>> -> Ok("TLSv1_3")
                [] OTHER -> Err("Invalid encoding")

----------------------------------------------------------------------------
(* record_layer.rs: the record model and its serialization *)

TLS_PLAINTEXT_MAX_LENGTH == 16384

TLSPlaintext(ct, pv, len, frag) ==
    [content_type |-> ct, legacy_record_version |-> pv, length |-> len,
     fragment |-> frag]

TLSCiphertext(ot, pv, len, enc) ==
    [opaque_type |-> ot, legacy_record_version |-> pv, length |-> len,
     encrypted_record |-> enc]

\* the serialization with the length written before the version
from_TLSPlaintext_length_first(value) ==
    LET content_type == u8_try_from_ContentType(value.content_type)
        record_version == bytes_try_from_ProtocolVersion(value.legacy_record_version)
    IN  Returned(<<content_type.val>> \o to_be_bytes(value.length)
                     \o record_version.val \o value.fragment)

\* the serialization that writes the payload's own length in place of the
\* declared one
from_TLSPlaintext_actual_length(value) ==
    LET content_type == u8_try_from_ContentType(value.content_type)
        record_version == bytes_try_from_ProtocolVersion(value.legacy_record_version)
    IN  Returned(<<content_type.val>> \o record_version.val
                     \o to_be_bytes(Len(value.fragment) % 65536) \o value.fragment)

\* impl From<TLSPlaintext<T>> for Vec<u8>, for T = Vec<u8>
from_TLSPlaintext(value) ==
    LET content_type == u8_try_from_ContentType(value.content_type)
        record_version == bytes_try_from_ProtocolVersion(value.legacy_record_version)
        length == to_be_bytes(value.length)
        fragment == value.fragment
    IN  IF content_type.kind # "Ok" \/ record_version.kind # "Ok" THEN Panic
        ELSE Returned(<<content_type.val>> \o record_version.val
                          \o length \o fragment)

\* the serialization that writes the type and version the field comments
\* call conventional instead of the fields' values
from_TLSCiphertext_conventional(value) ==
    Returned(<<23, 3, 3>> \o to_be_bytes(value.length) \o value.encrypted_record)

\* impl From<TLSCiphertext<T>> for Vec<u8>, for T = Vec<u8>
from_TLSCiphertext(value) ==
    LET opaque_type == u8_try_from_ContentType(value.opaque_type)
        record_version == bytes_try_from_ProtocolVersion(value.legacy_record_version)
    IN  IF opaque_type.kind # "Ok" \/ record_version.kind # "Ok" THEN Panic
        ELSE Returned(<<opaque_type.val>> \o record_version.val
                          \o to_be_bytes(value.length) \o value.encrypted_record)

\* enum Record<T>
RecordPlaintext(pt) == [variant |-> "TLSPlaintext", value |-> pt]
RecordCiphertext(ct) == [variant |-> "TLSCiphertext", value |-> ct]

\* impl From<Record<T>> for Vec<u8>
from_Record(value) ==
    IF value.variant = "TLSPlaintext" THEN from_TLSPlaintext(value.value)
    ELSE from_TLSCiphertext(value.value)

----------------------------------------------------------------------------
(* record_layer.rs: enum TLSPlaintextParser *)

ExpectContentType(rem) == [tag |-> "ExpectContentType", remainder |-> rem]
ExpectProtocolVersion(ct, rem) ==
    [tag |-> "ExpectProtocolVersion", content_type |-> ct, remainder |-> rem]
ExpectLength(ct, pv, rem) ==
    [tag |-> "ExpectLength", content_type |-> ct, protocol_version |-> pv,
     remainder |-> rem]
ExpectContent(ct, pv, len, rem) ==
    [tag |-> "ExpectContent", content_type |-> ct, protocol_version |-> pv,
     length |-> len, remainder |-> rem]
Finished(pt) == [tag |-> "Finished", tls_plaintext |-> pt]
Failed == [tag |-> "Failed"]
\* the thread panicked inside a step of the parser
Panicked == [tag |-> "Panicked"]

start(remainder) == ExpectContentType(remainder)

is_failed(self) == self.tag = "Failed"

is_finished(self) == self.tag = "Finished"

\* parse_content_type that leaves the window on the byte it decoded
parse_content_type_no_advance(self) ==
    IF self.tag # "ExpectContentType" THEN Panicked
    ELSE LET remainder == self.remainder IN
         IF Len(remainder) < 1 THEN Failed
         ELSE LET decoded == ContentType_try_from_u8(remainder[1]) IN
              IF decoded.kind = "Ok"
              THEN ExpectProtocolVersion(decoded.val, remainder)
              ELSE Failed

parse_content_type(self) ==
    IF self.tag # "ExpectContentType" THEN Panicked
    ELSE LET remainder == self.remainder IN
         IF Len(remainder) < 1 THEN Failed
         ELSE LET encoding == slice_get(remainder, 0) IN
              IF ~encoding.some THEN Panicked
              ELSE LET decoded == ContentType_try_from_u8(encoding.val) IN
                   IF decoded.kind = "Ok"
                   THEN ExpectProtocolVersion(decoded.val,
                            SubSeq(remainder, 2, Len(remainder)))
                   ELSE Failed

\* parse_protocol_version that advances the window by one byte only
parse_protocol_version_short_advance(self) ==
    IF self.tag # "ExpectProtocolVersion" THEN Panicked
    ELSE LET decoded == ProtocolVersion_try_from_slice(self.remainder) IN
         IF decoded.kind = "Ok"
         THEN ExpectLength(self.content_type, decoded.val,
                           SubSeq(self.remainder, 2, Len(self.remainder)))
         ELSE Failed

parse_protocol_version(self) ==
    IF self.tag # "ExpectProtocolVersion" THEN Panicked
    ELSE LET content_type == self.content_type
             remainder == self.remainder
             decoded == ProtocolVersion_try_from_slice(remainder)
         IN  IF decoded.kind = "Panic" THEN Panicked
             ELSE IF decoded.kind = "Ok"
             THEN LET rest == slice_get_from(remainder, 2) IN
                  IF ~rest.some THEN Panicked
                  ELSE ExpectLength(content_type, decoded.val, rest.val)
             ELSE Failed

\* parse_length without the check that 2 bytes remain
parse_length_unchecked(self) ==
    IF self.tag # "ExpectLength" THEN Panicked
    ELSE LET length_encoding == slice_get_range(self.remainder, 0, 2)
             rest == slice_get_from(self.remainder, 2)
         IN  IF ~length_encoding.some THEN Panicked
             ELSE LET length == from_be_bytes(length_encoding.val) IN
                  IF length > TLS_PLAINTEXT_MAX_LENGTH THEN Failed
                  ELSE IF ~rest.some THEN Panicked
                  ELSE ExpectContent(self.content_type, self.protocol_version,
                                     length, rest.val)

\* parse_length that finishes a record of declared length 0 at once
parse_length_finishes_empty(self) ==
    IF self.tag # "ExpectLength" THEN Panicked
    ELSE IF Len(self.remainder) < 2 THEN Failed
    ELSE LET length == from_be_bytes(SubSeq(self.remainder, 1, 2))
             rest == SubSeq(self.remainder, 3, Len(self.remainder))
         IN  IF length > TLS_PLAINTEXT_MAX_LENGTH THEN Failed
             ELSE IF length = 0 /\ rest = <<>>
             THEN Finished(TLSPlaintext(self.content_type, self.protocol_version,
                                        0, <<>>))
             ELSE ExpectContent(self.content_type, self.protocol_version,
                                length, rest)

\* parse_length that advances the window by one byte only
parse_length_short_advance(self) ==
    IF self.tag # "ExpectLength" THEN Panicked
    ELSE IF Len(self.remainder) < 2 THEN Failed
    ELSE LET length == from_be_bytes(SubSeq(self.remainder, 1, 2)) IN
         IF length > TLS_PLAINTEXT_MAX_LENGTH THEN Failed
         ELSE ExpectContent(self.content_type, self.protocol_version, length,
                            SubSeq(self.remainder, 2, Len(self.remainder)))

\* parse_length that reads the two length bytes in little-endian order
parse_length_little_endian(self) ==
    IF self.tag # "ExpectLength" THEN Panicked
    ELSE IF Len(self.remainder) < 2 THEN Failed
    ELSE LET length == self.remainder[1] + 256 * self.remainder[2] IN
         IF length > TLS_PLAINTEXT_MAX_LENGTH THEN Failed
         ELSE ExpectContent(self.content_type, self.protocol_version, length,
                            SubSeq(self.remainder, 3, Len(self.remainder)))

\* parse_length whose guard also rejects the maximum itself
parse_length_reject_max(self) ==
    IF self.tag # "ExpectLength" THEN Panicked
    ELSE IF Len(self.remainder) < 2 THEN Failed
    ELSE LET length == from_be_bytes(SubSeq(self.remainder, 1, 2)) IN
         IF length >= TLS_PLAINTEXT_MAX_LENGTH THEN Failed
         ELSE ExpectContent(self.content_type, self.protocol_version, length,
                            SubSeq(self.remainder, 3, Len(self.remainder)))

parse_length(self) ==
    IF self.tag # "ExpectLength" THEN Panicked
    ELSE LET content_type == self.content_type
             protocol_version == self.protocol_version
             remainder == self.remainder
         IN  IF Len(remainder) < 2 THEN Failed
             ELSE LET length_encoding == slice_get_range(remainder, 0, 2)
                      rest == slice_get_from(remainder, 2)
                  IN  IF ~length_encoding.some THEN Panicked
                      ELSE LET length == from_be_bytes(length_encoding.val) IN
                           IF length > TLS_PLAINTEXT_MAX_LENGTH THEN Failed
                           ELSE IF ~rest.some THEN Panicked
                           ELSE ExpectContent(content_type, protocol_version,
                                              length, rest.val)

\* parse_content that accepts a window shorter than the declared length
parse_content_at_most(self) ==
    IF self.tag # "ExpectContent" THEN Panicked
    ELSE IF Len(self.remainder) > self.length THEN Failed
    ELSE Finished(TLSPlaintext(self.content_type, self.protocol_version,
                               self.length, self.remainder))

\* parse_content that builds the record with a fixed content type
parse_content_fixed_type(self) ==
    IF self.tag # "ExpectContent" THEN Panicked
    ELSE IF Len(self.remainder) # self.length THEN Failed
    ELSE Finished(TLSPlaintext("Handshake", self.protocol_version,
                               self.length, self.remainder))

\* parse_content that accepts a window longer than the declared length
parse_content_at_least(self) ==
    IF self.tag # "ExpectContent" THEN Panicked
    ELSE IF Len(self.remainder) < self.length THEN Failed
    ELSE Finished(TLSPlaintext(self.content_type, self.protocol_version,
                               self.length, self.remainder))

parse_content(self) ==
    IF self.tag # "ExpectContent" THEN Panicked
    ELSE LET remainder == self.remainder IN
         IF Len(remainder) # self.length THEN Failed
         ELSE Finished(TLSPlaintext(self.content_type, self.protocol_version,
                                    self.length, remainder))

\* the default transition of trait FiniteStateMachine (fsm.rs), left in
\* place of the parser's own: the state is returned as it is
transition_default(self) == self

\* transition that steps a halted parser: Finished falls to Failed
transition_steps_halted(self) ==
    CASE self.tag = "ExpectContentType" -> parse_content_type(self)
      [] self.tag = "ExpectProtocolVersion" -> parse_protocol_version(self)
      [] self.tag = "ExpectLength" -> parse_length(self)
      [] self.tag = "ExpectContent" -> parse_content(self)
      [] self.tag = "Failed" -> self
      [] self.tag = "Finished" -> Failed

\* impl FiniteStateMachine for TLSPlaintextParser
transition(self) ==
    CASE self.tag = "ExpectContentType" -> parse_content_type(self)
      [] self.tag = "ExpectProtocolVersion" -> parse_protocol_version(self)
      [] self.tag = "ExpectLength" -> parse_length(self)
      [] self.tag = "ExpectContent" -> parse_content(self)
      [] self.tag = "Failed" -> self
      [] self.tag = "Finished" -> self

\* is_halt that forgets the Failed state
is_halt_finished_only(self) == is_finished(self)

is_halt(self) == is_failed(self) \/ is_finished(self)

----------------------------------------------------------------------------
(* The caller: serialize a record or receive raw bytes, start the parser,  *)
(* call transition until is_halt, and possibly call it again afterwards.   *)

NoRecord == [variant |-> "None"]
NoParser == [tag |-> "None"]
NoConv == [op |-> "none"]
NoPeers == <<>>

\* the payload of test_blind_serialization and complete_parsing
TestFragment == <<0, 1, 2, 3, 4>>

Fragments ==
    SeqsUpTo(FragBytes, MaxFragLen) \cup {Zeros(n) : n \in LongLens}
        \cup {TestFragment}

\* the declared lengths paired with a payload: its own length, and for the
\* enumerated payloads every sampled length
LengthsFor(frag) ==
    {Len(frag)} \cup (IF Len(frag) <= MaxFragLen THEN LengthSample ELSE {16384})

Records ==
    UNION {UNION {
        {RecordPlaintext(TLSPlaintext(q[1], q[2], len, frag)),
         RecordCiphertext(TLSCiphertext(q[1], q[2], len, frag))} :
        q \in ContentType \X ProtocolVersion, len \in LengthsFor(frag)} :
        frag \in Fragments}

\* buffers that put every byte value at the type tag and at either byte of
\* the version tag
HeaderProbes ==
    {<<b>> : b \in Byte} \cup {<<22, 3, b>> : b \in Byte}
        \cup {<<22, b, 3>> : b \in Byte}

RawBuffers == SeqsUpTo(ByteSample, MaxBufLen) \cup HeaderProbes

Init ==
    /\ \/ /\ record \in Records
          /\ buffer = <<>>
          /\ phase = "serialize"
       \/ /\ record = NoRecord
          /\ buffer \in RawBuffers
          /\ phase = "start"
    /\ parser = NoParser
    /\ calls = 0
    /\ conv = NoConv
    /\ peers = NoPeers

\* let record: Vec<u8> = record.into();
Serialize ==
    /\ phase = "serialize"
    /\ LET bytes == from_Record(record) IN
           IF bytes.kind = "Panic"
           THEN buffer' = buffer /\ phase' = "panicked"
           ELSE buffer' = bytes.val /\ phase' = "start"
    /\ UNCHANGED <<record, parser, calls, conv, peers>>

\* TLSPlaintextParser::start(&buffer)
Start ==
    /\ phase = "start"
    /\ parser' = start(buffer)
    /\ phase' = "drive"
    /\ UNCHANGED <<record, buffer, calls, conv, peers>>

\* while !start.is_halt() { start = start.transition(); }
Transition ==
    /\ phase = "drive"
    /\ ~is_halt(parser)
    /\ parser' = transition(parser)
    /\ calls' = calls + 1
    /\ phase' = IF parser'.tag = "Panicked" THEN "panicked" ELSE "drive"
    /\ UNCHANGED <<record, buffer, conv, peers>>

\* the loop ends
Halt ==
    /\ phase = "drive"
    /\ is_halt(parser)
    /\ phase' = "halted"
    /\ UNCHANGED <<record, buffer, parser, calls, conv, peers>>

\* transition called on a parser that has halted
TransitionHalted ==
    /\ phase = "halted"
    /\ calls < MaxCalls
    /\ parser' = transition(parser)
    /\ calls' = calls + 1
    /\ UNCHANGED <<record, buffer, phase, conv, peers>>

Next == Serialize \/ Start \/ Transition \/ Halt \/ TransitionHalted

Spec == Init /\ [][Next]_vars

----------------------------------------------------------------------------
(* A caller of the conversions of constants.rs: one value is converted,    *)
(* and a successful result is converted back.                              *)

Pending == [kind |-> "Pending"]

Conv(op, input) == [op |-> op, input |-> input, out |-> Pending, back |-> Pending]

\* slices handed to ProtocolVersion::try_from: every slice of at most two
\* bytes, and slices of three and four sampled bytes
Slices ==
    SeqsUpTo(Byte, 1) \cup [1..2 -> Byte] \cup [1..3 -> ByteSample]
        \cup [1..4 -> ByteSample]

InitCodec ==
    /\ record = NoRecord
    /\ buffer = <<>>
    /\ parser = NoParser
    /\ calls = 0
    /\ phase = "codec"
    /\ peers = NoPeers
    /\ conv \in {Conv("u8::try_from", t) : t \in ContentType}
            \cup {Conv("ContentType::try_from", b) : b \in Byte}
            \cup {Conv("<[u8; 2]>::try_from", v) : v \in ProtocolVersion}
            \cup {Conv("ProtocolVersion::try_from", sl) : sl \in Slices}

Idle == UNCHANGED <<record, buffer, parser, calls, phase, peers>>

\* u8::try_from(content_type)
EncodeContentType ==
    /\ conv.op = "u8::try_from" /\ conv.out = Pending
    /\ conv' = [conv EXCEPT !.out = u8_try_from_ContentType(conv.input)]
    /\ Idle

\* ContentType::try_from(byte)
DecodeContentType ==
    /\ conv.op = "ContentType::try_from" /\ conv.out = Pending
    /\ conv' = [conv EXCEPT !.out = ContentType_try_from_u8(conv.input)]
    /\ Idle

\* <[u8; 2]>::try_from(protocol_version)
EncodeProtocolVersion ==
    /\ conv.op = "<[u8; 2]>::try_from" /\ conv.out = Pending
    /\ conv' = [conv EXCEPT !.out = bytes_try_from_ProtocolVersion(conv.input)]
    /\ Idle

\* ProtocolVersion::try_from(slice)
DecodeProtocolVersion ==
    /\ conv.op = "ProtocolVersion::try_from" /\ conv.out = Pending
    /\ conv' = [conv EXCEPT !.out = ProtocolVersion_try_from_slice(conv.input)]
    /\ Idle

\* the successful result converted back by the opposite conversion
ConvertBack ==
    /\ conv.out.kind = "Ok" /\ conv.back = Pending
    /\ conv' = [conv EXCEPT !.back =
           CASE conv.op = "u8::try_from" -> ContentType_try_from_u8(conv.out.val)
             [] conv.op = "ContentType::try_from" ->
                    u8_try_from_ContentType(conv.out.val)
             [] conv.op = "<[u8; 2]>::try_from" ->
                    ProtocolVersion_try_from_slice(conv.out.val)
             [] conv.op = "ProtocolVersion::try_from" ->
                    bytes_try_from_ProtocolVersion(conv.out.val)]
    /\ Idle

NextCodec ==
    EncodeContentType \/ DecodeContentType \/ EncodeProtocolVersion
        \/ DecodeProtocolVersion \/ ConvertBack

SpecCodec == InitCodec /\ [][NextCodec]_vars

----------------------------------------------------------------------------
(* A caller that holds two parser instances, each started on its own       *)
(* buffer (the same bytes or different ones), and calls transition on      *)
(* either of them in any order.                                            *)

Instances == {1, 2}

Prefixes(b) == {SubSeq(b, 1, k) : k \in 0..Len(b)}

\* the buffers the instances are started on: complete_parsing's buffer and
\* every truncation of it, a zero-length record, a record with a byte after
\* it, and buffers with an unmapped type tag, an unmapped version and a
\* length above the maximum
PairBuffers ==
    Prefixes(<<22, 3, 3, 0, 5, 0, 1, 2, 3, 4>>)
        \cup {<<23, 3, 1, 0, 0>>, <<22, 3, 3, 0, 1, 7, 7>>, <<255, 2, 3, 4>>,
              <<22, 3, 5, 1, 2, 3>>, <<22, 3, 3, 64, 1, 1, 2, 3>>}

\* one instance: its buffer, its parser value, the number of calls of
\* transition made on it and the states it has passed through
Instance(b) ==
    [buffer |-> b, parser |-> start(b), calls |-> 0, trace |-> <<start(b)>>]

\* a step that writes the new state to every instance, as a parser state
\* held in one shared place would
StepInstanceShared(ps, i) ==
    LET next == transition(ps[i].parser) IN
    [j \in DOMAIN ps |->
        [ps[j] EXCEPT !.parser = next,
                      !.calls = IF j = i THEN @ + 1 ELSE @,
                      !.trace = IF j = i THEN Append(@, next) ELSE @]]

\* instance i = instance i.transition(): the call consumes the instance's
\* own value and nothing else
StepInstance(ps, i) ==
    LET next == transition(ps[i].parser) IN
    [ps EXCEPT ![i] = [@ EXCEPT !.parser = next,
                                !.calls = @ + 1,
                                !.trace = Append(@, next)]]

InitPair ==
    /\ record = NoRecord
    /\ buffer = <<>>
    /\ parser = NoParser
    /\ calls = 0
    /\ phase = "pair"
    /\ conv = NoConv
    /\ peers \in [Instances -> {Instance(b) : b \in PairBuffers}]

\* transition called on one of the instances
TransitionInstance ==
    \E i \in Instances :
        /\ peers[i].calls < MaxCalls
        /\ peers[i].parser.tag # "Panicked"
        /\ peers' = StepInstance(peers, i)
        /\ UNCHANGED <<record, buffer, parser, calls, phase, conv>>

NextPair == TransitionInstance

SpecPair == InitPair /\ [][NextPair]_vars

----------------------------------------------------------------------------
(* The wire format as the specification states it (its sections 3 and 6),  *)
(* written independently of the conversions above.                          *)

TypeTagByte(t) ==
    CASE t = "Invalid" -> 0
      [] t = "ChangeCipherSpec" -> 20
      [] t = "Alert" -> 21
      [] t = "Handshake" -> 22
      [] t = "ApplicationData" -> 23

VersionTagBytes(v) ==
    CASE v = "TLSv1_0" -> <<3, 1>>
      [] v = "TLSv1_1" -> <<3, 2>>
      [] v = "TLSv1_2" -> <<3, 3>>
      [] v = "TLSv1_3" -> <<3, 4>>

MappedTypeBytes == {TypeTagByte(t) : t \in ContentType}
MappedVersionPairs == {VersionTagBytes(v) : v \in ProtocolVersion}
TypeTagOf(b) == CHOOSE t \in ContentType : TypeTagByte(t) = b
VersionTagOf(pair) == CHOOSE v \in ProtocolVersion : VersionTagBytes(v) = pair
BigEndian(hi, lo) == 256 * hi + lo

\* a call of transition was made in this step
Stepped == calls' = calls + 1

----------------------------------------------------------------------------
(* C1 *)

\* the record being serialized is a valid plaintext record whose declared
\* length is the byte length of its fragment
RoundTripInput ==
    /\ record.variant = "TLSPlaintext"
    /\ record.value.length = Len(record.value.fragment)
    /\ record.value.length <= 16384

\* C1: round trip. For a valid plaintext record r with declared length equal
\* to its fragment's length, the parser started on the serialization of r
\* never fails, and when the driving loop ends it is Finished with the type
\* tag, version tag, declared length and fragment bytes of r.
C1_RoundTrip ==
    RoundTripInput =>
        /\ phase # "panicked"
        /\ parser.tag \notin {"Failed", "Panicked"}
        /\ phase = "halted" =>
              /\ parser.tag = "Finished"
              /\ parser.tls_plaintext.content_type = record.value.content_type
              /\ parser.tls_plaintext.legacy_record_version
                     = record.value.legacy_record_version
              /\ parser.tls_plaintext.length = record.value.length
              /\ parser.tls_plaintext.fragment = record.value.fragment

\* a record with a fragment of the maximum size has made the round trip
C1_Witness ==
    /\ RoundTripInput
    /\ Len(record.value.fragment) = 16384
    /\ phase = "halted"
    /\ parser.tag = "Finished"

----------------------------------------------------------------------------
(* C2 *)

\* C2: strict length equality. A transition from ExpectContent yields
\* Finished if and only if the window holds exactly the declared number of
\* bytes, and Failed when it holds fewer and when it holds more.
C2_StrictLength ==
    [][(parser.tag = "ExpectContent" /\ Stepped) =>
          IF Len(parser.remainder) = parser.length
          THEN parser'.tag = "Finished"
          ELSE parser' = Failed]_vars

\* the fragment step has failed on a buffer with bytes after the record
C2_Witness ==
    /\ parser.tag = "Failed"
    /\ calls = 4
    /\ Len(buffer) - 5 > BigEndian(buffer[4], buffer[5])

----------------------------------------------------------------------------
(* C3 *)

\* C3: idempotent halting. Every step taken from a Finished or a Failed
\* parser, calls of transition included, leaves the parser value unchanged.
C3_IdempotentHalting ==
    [][parser.tag \in {"Finished", "Failed"} => parser' = parser]_vars

\* transition has been called twice on a Finished parser
C3_Witness ==
    /\ phase = "halted"
    /\ parser.tag = "Finished"
    /\ calls >= 6

----------------------------------------------------------------------------
(* C4 *)

\* the buffer is a mapped type byte, a mapped version pair and a big-endian
\* length of at most 16384 followed by exactly that many bytes
WellFormedBuffer(b) ==
    /\ Len(b) >= 5
    /\ b[1] \in MappedTypeBytes
    /\ <<b[2], b[3]>> \in MappedVersionPairs
    /\ BigEndian(b[4], b[5]) <= 16384
    /\ BigEndian(b[4], b[5]) = Len(b) - 5

\* C4: full decode success. On a well-formed buffer the parser never fails,
\* and when the driving loop ends it is Finished with the type tag and
\* version tag the header bytes map to, the big-endian length, and the
\* bytes from offset 5 to the end as fragment.
C4_FullDecode ==
    (phase \in {"drive", "halted"} /\ WellFormedBuffer(buffer)) =>
        /\ parser.tag \notin {"Failed", "Panicked"}
        /\ phase = "halted" =>
              parser = Finished(TLSPlaintext(
                           TypeTagOf(buffer[1]),
                           VersionTagOf(<<buffer[2], buffer[3]>>),
                           BigEndian(buffer[4], buffer[5]),
                           SubSeq(buffer, 6, Len(buffer))))

\* a raw 5-byte buffer (the zero-length record) has been decoded
C4_Witness ==
    /\ record = NoRecord
    /\ Len(buffer) = 5
    /\ phase = "halted"
    /\ parser.tag = "Finished"

----------------------------------------------------------------------------
(* C5 *)

\* C5: length overflow guard. A transition from ExpectLength whose two
\* leading bytes decode to more than 16384 yields Failed however many bytes
\* follow; the value 16384 itself passes to ExpectContent; and no step
\* produces an ExpectContent or Finished state with a length above 16384.
C5_LengthGuard ==
    [][/\ (parser.tag = "ExpectLength" /\ Stepped /\ Len(parser.remainder) >= 2) =>
            LET declared == BigEndian(parser.remainder[1], parser.remainder[2]) IN
            /\ declared > 16384 => parser' = Failed
            /\ declared = 16384 =>
                  (parser'.tag = "ExpectContent" /\ parser'.length = 16384)
       /\ parser'.tag = "ExpectContent" => parser'.length <= 16384
       /\ parser'.tag = "Finished" => parser'.tls_plaintext.length <= 16384]_vars

\* the length step has failed on 16385 although 16385 bytes follow
C5_Witness ==
    /\ parser.tag = "Failed"
    /\ calls = 3
    /\ Len(buffer) = 5 + 16385
    /\ BigEndian(buffer[4], buffer[5]) = 16385

\* the boundary value has passed the guard
C5_WitnessBoundary ==
    /\ parser.tag = "ExpectContent"
    /\ parser.length = 16384

----------------------------------------------------------------------------
(* C6 *)

\* C6: encode layout. Serializing a plaintext record does not fail and
\* yields the type-tag byte, the two version bytes, the declared length as
\* two big-endian bytes and the payload bytes, in this order: 5 bytes plus
\* the payload.
C6_EncodeLayout ==
    (record.variant = "TLSPlaintext" /\ phase # "serialize") =>
        /\ phase # "panicked"
        /\ buffer = <<TypeTagByte(record.value.content_type)>>
                        \o VersionTagBytes(record.value.legacy_record_version)
                        \o <<record.value.length \div 256, record.value.length % 256>>
                        \o record.value.fragment
        /\ Len(buffer) = 5 + Len(record.value.fragment)

\* the record of test_blind_serialization has been serialized
C6_Witness ==
    /\ record = RecordPlaintext(TLSPlaintext("ApplicationData", "TLSv1_0", 5,
                                              TestFragment))
    /\ buffer = <<23, 3, 1, 0, 5, 0, 1, 2, 3, 4>>

----------------------------------------------------------------------------
(* C7 *)

\* C7: type-tag step. A transition from ExpectContentType yields Failed when
\* the window is empty or its first byte is not a mapped type byte, and
\* otherwise ExpectProtocolVersion with the decoded type tag and the window
\* without its first byte.
C7_TypeTagStep ==
    [][(parser.tag = "ExpectContentType" /\ Stepped) =>
          IF parser.remainder = <<>> \/ parser.remainder[1] \notin {0, 20, 21, 22, 23}
          THEN parser' = Failed
          ELSE parser' = ExpectProtocolVersion(TypeTagOf(parser.remainder[1]),
                                               Tail(parser.remainder))]_vars

\* the type-tag step has decoded Handshake and left a non-empty window
C7_Witness ==
    /\ parser.tag = "ExpectProtocolVersion"
    /\ parser.content_type = "Handshake"
    /\ parser.remainder # <<>>
    /\ parser.remainder = Tail(buffer)

\* the type-tag step has failed on an unmapped byte
C7_WitnessUnmapped ==
    /\ parser.tag = "Failed"
    /\ calls = 1
    /\ buffer # <<>>

----------------------------------------------------------------------------
(* C8 *)

\* C8: version-tag step. A transition from ExpectProtocolVersion yields
\* Failed when fewer than 2 bytes remain or the leading 2 bytes are not a
\* mapped version pair, and otherwise ExpectLength with the type tag kept,
\* the decoded version tag and the window without its first 2 bytes.
C8_VersionTagStep ==
    [][(parser.tag = "ExpectProtocolVersion" /\ Stepped) =>
          IF \/ Len(parser.remainder) < 2
             \/ <<parser.remainder[1], parser.remainder[2]>>
                    \notin {<<3, 1>>, <<3, 2>>, <<3, 3>>, <<3, 4>>}
          THEN parser' = Failed
          ELSE parser' = ExpectLength(
                   parser.content_type,
                   VersionTagOf(<<parser.remainder[1], parser.remainder[2]>>),
                   SubSeq(parser.remainder, 3, Len(parser.remainder)))]_vars

\* the version-tag step has decoded TLSv1_2 and left a non-empty window
C8_Witness ==
    /\ parser.tag = "ExpectLength"
    /\ parser.protocol_version = "TLSv1_2"
    /\ parser.remainder # <<>>
    /\ parser.remainder = SubSeq(buffer, 4, Len(buffer))

\* the version-tag step has failed on two unmapped bytes
C8_WitnessUnmapped ==
    /\ parser.tag = "Failed"
    /\ calls = 2
    /\ Len(buffer) >= 3

----------------------------------------------------------------------------
(* C9 *)

\* C9: the enum codecs are exact inverses on the fixed table. Encoding never
\* fails, decoding the encoding of a tag gives the tag back, no two tags
\* share an encoding, and decoding succeeds exactly on the bytes (byte
\* pairs) of the table and is the invalid-encoding error on all others.
C9_EnumCodecs ==
    /\ (conv.op = "u8::try_from" /\ conv.out # Pending) =>
          /\ conv.out.kind = "Ok"
          /\ \A t \in ContentType \ {conv.input} :
                 u8_try_from_ContentType(t) # conv.out
          /\ conv.back # Pending => conv.back = Ok(conv.input)
    /\ (conv.op = "<[u8; 2]>::try_from" /\ conv.out # Pending) =>
          /\ conv.out.kind = "Ok"
          /\ \A v \in ProtocolVersion \ {conv.input} :
                 bytes_try_from_ProtocolVersion(v) # conv.out
          /\ conv.back # Pending => conv.back = Ok(conv.input)
    /\ (conv.op = "ContentType::try_from" /\ conv.out # Pending) =>
          IF conv.input \in {0, 20, 21, 22, 23}
          THEN conv.out = Ok(TypeTagOf(conv.input))
          ELSE conv.out = Err("Invalid encoding")
    /\ (conv.op = "ProtocolVersion::try_from" /\ conv.out # Pending
            /\ Len(conv.input) = 2) =>
          IF conv.input \in {<<3, 1>>, <<3, 2>>, <<3, 3>>, <<3, 4>>}
          THEN conv.out = Ok(VersionTagOf(conv.input))
          ELSE conv.out = Err("Invalid encoding")

\* a version tag has been encoded and decoded back
C9_Witness ==
    /\ conv.op = "<[u8; 2]>::try_from"
    /\ conv.input = "TLSv1_3"
    /\ conv.back # Pending

\* a byte outside the table has been refused
C9_WitnessUnmapped ==
    /\ conv.op = "ContentType::try_from"
    /\ conv.input = 255
    /\ conv.out.kind = "Err"

----------------------------------------------------------------------------
(* C10 *)

\* C10: the halt predicate is true exactly in the terminal states. is_halt
\* holds of a Finished and of a Failed parser and of no parser expecting
\* input, the driving loop ends only on a Finished or Failed parser, and
\* no parser is Finished and Failed at once.
C10_HaltExactlyTerminal ==
    parser # NoParser =>
        /\ parser.tag \in {"Finished", "Failed"} => is_halt(parser)
        /\ parser.tag \in {"ExpectContentType", "ExpectProtocolVersion",
                            "ExpectLength", "ExpectContent"} => ~is_halt(parser)
        /\ ~(is_finished(parser) /\ is_failed(parser))
        /\ is_finished(parser) <=> parser.tag = "Finished"
        /\ is_failed(parser) <=> parser.tag = "Failed"
        /\ phase = "halted" => parser.tag \in {"Finished", "Failed"}
        /\ phase = "drive" => (ENABLED Transition <=> parser.tag
               \in {"ExpectContentType", "ExpectProtocolVersion",
                     "ExpectLength", "ExpectContent"})

\* the driving loop has ended on a Failed parser
C10_Witness ==
    /\ phase = "halted"
    /\ parser = Failed
    /\ calls = 4

----------------------------------------------------------------------------
(* C11 *)

\* C11: termination of the driving loop. While the loop runs at most 4
\* transitions have been made, a parser that has not halted can always make
\* the next one, after the 4th the parser has halted, and a Finished parser
\* has made exactly 4 when the loop ends.
C11_Termination ==
    /\ phase = "drive" =>
          /\ calls <= 4
          /\ calls = 4 => is_halt(parser)
          /\ ~is_halt(parser) => ENABLED Transition
          /\ parser.tag = "Finished" => calls = 4
    /\ (phase = "halted" /\ parser.tag = "Finished") => calls >= 4
    /\ phase = "halted" => is_halt(parser)

\* the loop has reached Finished with its 4th transition
C11_Witness ==
    /\ phase = "drive"
    /\ calls = 4
    /\ parser.tag = "Finished"

\* the loop has halted on the empty buffer after one transition
C11_WitnessEmpty ==
    /\ buffer = <<>>
    /\ record = NoRecord
    /\ phase = "halted"
    /\ calls = 1

----------------------------------------------------------------------------
(* C12 *)

\* C12: encode performs no length validation. For every plaintext record,
\* whatever its declared length, serialization does not fail, the bytes at
\* offsets 3 and 4 are the declared length in big-endian order, and the
\* bytes from offset 5 on are the fragment unchanged.
C12_NoLengthValidation ==
    (record.variant = "TLSPlaintext" /\ phase # "serialize") =>
        /\ phase # "panicked"
        /\ Len(buffer) >= 5
        /\ BigEndian(buffer[4], buffer[5]) = record.value.length
        /\ buffer[4] \in Byte /\ buffer[5] \in Byte
        /\ SubSeq(buffer, 6, Len(buffer)) = record.value.fragment

\* a record declaring 65535 bytes over a shorter fragment has been serialized
C12_Witness ==
    /\ record.variant = "TLSPlaintext"
    /\ phase = "start"
    /\ record.value.length = 65535
    /\ Len(record.value.fragment) = 1
    /\ SubSeq(buffer, 4, 5) = <<255, 255>>

----------------------------------------------------------------------------
(* C13 *)

\* C13: length step. A transition from ExpectLength yields Failed when fewer
\* than 2 bytes remain; with at least 2 bytes whose big-endian value is at
\* most 16384 it yields ExpectContent with the type and version tags kept,
\* that value as length, and the window without its first 2 bytes.
C13_LengthStep ==
    [][(parser.tag = "ExpectLength" /\ Stepped) =>
          IF Len(parser.remainder) < 2
          THEN parser' = Failed
          ELSE LET declared == 256 * parser.remainder[1] + parser.remainder[2] IN
               declared <= 16384 =>
                   parser' = ExpectContent(
                       parser.content_type, parser.protocol_version, declared,
                       SubSeq(parser.remainder, 3, Len(parser.remainder)))]_vars

\* the length step has read 0x0100 as 256 from a raw buffer
C13_Witness ==
    /\ record = NoRecord
    /\ parser.tag = "ExpectContent"
    /\ parser.length = 256
    /\ parser.remainder # <<>>
    /\ parser.remainder = SubSeq(buffer, 6, Len(buffer))

\* the length step has failed on a window of one byte
C13_WitnessShort ==
    /\ parser = Failed
    /\ calls = 3
    /\ Len(buffer) = 4

----------------------------------------------------------------------------
(* C14 *)

NonTerminal ==
    {"ExpectContentType", "ExpectProtocolVersion", "ExpectLength", "ExpectContent"}

\* the state that follows in the order of the specification's section 4.4
SuccessorTag(tag) ==
    CASE tag = "ExpectContentType" -> "ExpectProtocolVersion"
      [] tag = "ExpectProtocolVersion" -> "ExpectLength"
      [] tag = "ExpectLength" -> "ExpectContent"
      [] tag = "ExpectContent" -> "Finished"

\* C14: state ordering. The parser starts in ExpectContentType; a transition
\* from a non-terminal state goes to the immediate successor in the order
\* ExpectContentType, ExpectProtocolVersion, ExpectLength, ExpectContent,
\* Finished, or to Failed; nothing else moves the parser; Finished is entered
\* from ExpectContent only, and a terminal state is never left.
C14_StateOrdering ==
    [][/\ (parser = NoParser /\ parser' # parser) =>
             parser'.tag = "ExpectContentType"
       /\ (parser.tag \in NonTerminal /\ Stepped) =>
             parser'.tag \in {SuccessorTag(parser.tag), "Failed"}
       /\ (parser.tag \in NonTerminal /\ ~Stepped) => parser' = parser
       /\ (parser'.tag = "Finished" /\ parser.tag # "Finished") =>
             parser.tag = "ExpectContent"
       /\ parser.tag \in {"Finished", "Failed"} => parser'.tag = parser.tag]_vars

\* a raw buffer has taken the parser through all five states
C14_Witness ==
    /\ record = NoRecord
    /\ phase = "halted"
    /\ parser.tag = "Finished"
    /\ calls = 4

----------------------------------------------------------------------------
(* C15 *)

\* bytes consumed before the window in each non-terminal state
Consumed(tag) ==
    CASE tag = "ExpectContentType" -> 0
      [] tag = "ExpectProtocolVersion" -> 1
      [] tag = "ExpectLength" -> 3
      [] tag = "ExpectContent" -> 5

\* C15: window invariant. Every non-terminal state a step produces holds as
\* window the suffix of the buffer after exactly 0, 1, 3 or 5 consumed
\* bytes; no step makes the window longer; and once the parser is started
\* no step changes the buffer.
C15_WindowInvariant ==
    [][/\ parser'.tag \in NonTerminal =>
             /\ Len(buffer') >= Consumed(parser'.tag)
             /\ parser'.remainder
                    = SubSeq(buffer', Consumed(parser'.tag) + 1, Len(buffer'))
       /\ (parser.tag \in NonTerminal /\ parser'.tag \in NonTerminal) =>
             Len(parser'.remainder) <= Len(parser.remainder)
       /\ parser # NoParser => buffer' = buffer]_vars

\* the window of a raw buffer stands after the 5 header bytes
C15_Witness ==
    /\ record = NoRecord
    /\ parser.tag = "ExpectContent"
    /\ Len(buffer) = 6
    /\ parser.remainder = <<buffer[6]>>

----------------------------------------------------------------------------
(* C16 *)

\* the fields a parser state has established
TypeIn(p) ==
    IF p.tag = "Finished" THEN p.tls_plaintext.content_type ELSE p.content_type
VersionIn(p) ==
    IF p.tag = "Finished" THEN p.tls_plaintext.legacy_record_version
    ELSE p.protocol_version
LengthIn(p) ==
    IF p.tag = "Finished" THEN p.tls_plaintext.length ELSE p.length

\* C16: established fields are carried unchanged. A step from a state that
\* holds a type tag (version tag, declared length) to a state other than
\* Failed leaves that field as it was, in the Finished record too; and the
\* type tag held is always the one the buffer's first byte maps to.
C16_FieldsCarried ==
    [][/\ parser'.tag \notin {"Failed", "Panicked"} =>
             /\ parser.tag \in {"ExpectProtocolVersion", "ExpectLength",
                                 "ExpectContent", "Finished"} =>
                   TypeIn(parser') = TypeIn(parser)
             /\ parser.tag \in {"ExpectLength", "ExpectContent", "Finished"} =>
                   VersionIn(parser') = VersionIn(parser)
             /\ parser.tag \in {"ExpectContent", "Finished"} =>
                   LengthIn(parser') = LengthIn(parser)
       /\ parser'.tag \in {"ExpectProtocolVersion", "ExpectLength",
                            "ExpectContent", "Finished"} =>
             TypeIn(parser') = TypeTagOf(buffer'[1])]_vars

\* an Alert record of version TLSv1_1 has kept its tags up to Finished
C16_Witness ==
    /\ parser.tag = "Finished"
    /\ parser.tls_plaintext.content_type = "Alert"
    /\ parser.tls_plaintext.legacy_record_version = "TLSv1_1"
    /\ buffer[1] = 21

----------------------------------------------------------------------------
(* C17 *)

\* C17: decode soundness. Whenever the parser is Finished with record r on
\* buffer b, r's declared length is the byte length of its fragment and at
\* most 16384, b has 5 bytes more than that, and serializing r gives b back
\* byte for byte.
C17_DecodeSoundness ==
    parser.tag = "Finished" =>
        LET r == parser.tls_plaintext IN
        /\ r.length = Len(r.fragment)
        /\ r.length <= 16384
        /\ Len(buffer) = 5 + r.length
        /\ from_TLSPlaintext(r) = Returned(buffer)

\* a raw buffer of 6 bytes has been decoded
C17_Witness ==
    /\ record = NoRecord
    /\ parser.tag = "Finished"
    /\ Len(buffer) = 6

----------------------------------------------------------------------------
(* C18 *)

\* C18: no panic on untrusted input. No step of the caller or of the parser
\* panics: transition never reaches unreachable!() and no unwrap fails.
C18_NoPanic ==
    /\ phase # "panicked"
    /\ parser.tag # "Panicked"

\* the version step and the length step have each met a window too short
\* for their slice accesses: here the length step, on a window of one byte
C18_Witness ==
    /\ record = NoRecord
    /\ Len(buffer) = 4
    /\ calls = 3
    /\ parser = Failed
    /\ phase = "halted"

----------------------------------------------------------------------------
(* C19 *)

\* C19: version-tag decode error kinds. Decoding fewer than 2 bytes is the
\* invalid-length error; decoding 2 or more bytes gives the version the
\* leading 2 bytes map to, whatever follows them, and the invalid-encoding
\* error when they map to none.
C19_VersionDecodeErrors ==
    (conv.op = "ProtocolVersion::try_from" /\ conv.out # Pending) =>
        IF Len(conv.input) < 2
        THEN conv.out = Err("Invalid length")
        ELSE IF <<conv.input[1], conv.input[2]>> \in MappedVersionPairs
        THEN conv.out = Ok(VersionTagOf(<<conv.input[1], conv.input[2]>>))
        ELSE conv.out = Err("Invalid encoding")

\* a slice of 4 bytes has been decoded by its leading 2
C19_Witness ==
    /\ conv.op = "ProtocolVersion::try_from"
    /\ Len(conv.input) = 4
    /\ conv.out = Ok("TLSv1_0")

\* a slice of one byte has been refused for its length
C19_WitnessShort ==
    /\ conv.op = "ProtocolVersion::try_from"
    /\ conv.input = <<3>>
    /\ conv.out = Err("Invalid length")

----------------------------------------------------------------------------
(* C20 *)

\* C20: record dispatch and ciphertext encoding. Serializing a Record gives
\* the serialization of the plaintext or ciphertext record it wraps; a
\* ciphertext record of any type tag, version and declared length
\* serializes without failing to the type-tag byte, the 2 version bytes,
\* the declared length in 2 big-endian bytes and the payload.
C20_RecordDispatch ==
    (record # NoRecord /\ phase # "serialize") =>
        /\ phase # "panicked"
        /\ record.variant = "TLSPlaintext" =>
              Returned(buffer) = from_TLSPlaintext(record.value)
        /\ record.variant = "TLSCiphertext" =>
              /\ Returned(buffer) = from_TLSCiphertext(record.value)
              /\ buffer = <<TypeTagByte(record.value.opaque_type)>>
                    \o VersionTagBytes(record.value.legacy_record_version)
                    \o <<record.value.length \div 256, record.value.length % 256>>
                    \o record.value.encrypted_record

\* a ciphertext record that is not ApplicationData / TLSv1_2 and declares
\* 65535 bytes has been serialized
C20_Witness ==
    /\ record.variant = "TLSCiphertext"
    /\ phase = "start"
    /\ record.value.opaque_type = "Handshake"
    /\ record.value.legacy_record_version = "TLSv1_0"
    /\ record.value.length = 65535
    /\ buffer = <<22, 3, 1, 255, 255, 0>>

----------------------------------------------------------------------------
(* C21 *)

\* the states a parser driven alone on buffer b passes through in n calls
\* of transition
RECURSIVE SoloTrace(_, _)
SoloTrace(b, n) ==
    IF n = 0 THEN <<start(b)>>
    ELSE LET before == SoloTrace(b, n - 1) IN
         Append(before, transition(before[Len(before)]))

C21_WitnessEqual ==
    /\ phase = "pair"
    /\ peers[1].buffer = peers[2].buffer
    /\ peers[1].parser.tag = "Finished"
    /\ peers[2].parser.tag = "Finished"

====
